---------------------------- MODULE Spec2Model ----------------------------
(***************************************************************************)
(* A model of the two browser front-ends of the repository:                *)
(*   - the chat app   (App, ChatInput, ChatMessage of the chat source),    *)
(*   - the image app  (App of src/App.tsx),                                *)
(* and of the prose / code segmentation ChatMessage performs on a message  *)
(* text.                                                                   *)
(*                                                                         *)
(* Strings are sequences of one-character strings, so that trim, split,    *)
(* startsWith and replace are computed character by character.             *)
(*                                                                         *)
(* One step of the model is one browser task: a DOM event handler run to   *)
(* its first await together with the re-render React performs before the   *)
(* next event is dispatched, or the continuation of a handler after the    *)
(* adapter's promise settles.  A handler therefore reads the state left by *)
(* the previous step.                                                      *)
(***************************************************************************)
EXTENDS Integers, Sequences, FiniteSets

VARIABLES
  app,          \* which front-end is running: "chat" or "image"
  now,          \* the millisecond clock read by Date.now()
  mounted,      \* the mount effect (useEffect(..., [])) has run
  isLoading,    \* useState isLoading (both apps)
  inflight,     \* adapter requests dispatched and not yet settled
  uncaught,     \* an exception left a handler without being caught
  lastEvent,    \* the handler run by the last step, with its input
  messages,     \* chat: useState messages
  aiRef,        \* chat: aiRef.current is set
  chatRef,      \* chat: chatRef.current, 0 for null, else a session number
  nextSession,  \* chat: sessions created so far by ai.chats.create
  nextReq,      \* chat: sendMessage calls made so far
  initFailed,   \* chat: the mount effect's catch block has run
  ai,           \* image: useState ai is set
  image,        \* image: useState image, <<>> for null
  prompt,       \* image: useState prompt
  error,        \* image: useState error, <<>> for null
  liveUrls,     \* image: object URLs created and not revoked
  nextUrl,      \* image: object URLs created so far
  edits,        \* image: successful edits so far
  text,         \* segmentation: the message text handed to ChatMessage
  spans,        \* segmentation: what ChatMessage rendered
  rendered      \* segmentation: ChatMessage has rendered text

vars == <<app, now, mounted, isLoading, inflight, uncaught, lastEvent,
          messages, aiRef, chatRef, nextSession, nextReq, initFailed,
          ai, image, prompt, error, liveUrls, nextUrl, edits,
          text, spans, rendered>>

chatVars == <<messages, aiRef, chatRef, nextSession, nextReq, initFailed>>
imageVars == <<ai, image, prompt, error, liveUrls, nextUrl, edits>>
segVars == <<text, spans, rendered>>

---------------------------------------------------------------------------
(* Bounds of the model. *)

MaxClock == 2
MaxRequests == 2
MaxSessions == 3
MaxUploads == 2
MaxEdits == 5
MaxPieces == 6

---------------------------------------------------------------------------
(* Strings. *)

\* ECMAScript WhiteSpace and LineTerminator characters that a TLA+ string
\* can hold; String.prototype.trim removes these.
WhiteSpace == {" ", "\t", "\n", "\r", "\f"}

\* The regular expression class \w.
WordChars ==
  {"a","b","c","d","e","f","g","h","i","j","k","l","m","n","o","p","q","r",
   "s","t","u","v","w","x","y","z","A","B","C","D","E","F","G","H","I","J",
   "K","L","M","N","O","P","Q","R","S","T","U","V","W","X","Y","Z","0","1",
   "2","3","4","5","6","7","8","9","_"}

\* The grave accent, U+0060.  A TLA+ string literal cannot hold the character
\* itself, so the one-character string is written by name.
Backtick == "<U+0060>"

\* The three characters of a fence marker.
Fence == <<Backtick, Backtick, Backtick>>

Drop(s, n) == SubSeq(s, n + 1, Len(s))

RECURSIVE TrimStart(_)
TrimStart(s) ==
  IF s # <<>> /\ Head(s) \in WhiteSpace THEN TrimStart(Tail(s)) ELSE s

RECURSIVE TrimEnd(_)
TrimEnd(s) ==
  IF s # <<>> /\ s[Len(s)] \in WhiteSpace
  THEN TrimEnd(SubSeq(s, 1, Len(s) - 1))
  ELSE s

\* String.prototype.trim
Trim(s) == TrimEnd(TrimStart(s))

\* String.prototype.startsWith
StartsWith(s, p) == Len(s) >= Len(p) /\ SubSeq(s, 1, Len(p)) = p

\* String.prototype.endsWith
EndsWith(s, p) ==
  Len(s) >= Len(p) /\ SubSeq(s, Len(s) - Len(p) + 1, Len(s)) = p

Digits == <<"0","1","2","3","4","5","6","7","8","9">>

\* Number.prototype.toString of a non-negative integer
RECURSIVE ToString(_)
ToString(n) ==
  IF n < 10
  THEN <<Digits[n + 1]>>
  ELSE ToString(n \div 10) \o <<Digits[(n % 10) + 1]>>

---------------------------------------------------------------------------
(* The chat app: constants. *)

GreetingText ==
  <<"H","e","l","l","o","!"," ","I"," ","a","m"," ","G","e","m","i","n","i",
    "."," ","H","o","w"," ","c","a","n"," ","I"," ","a","s","s","i","s","t",
    " ","y","o","u"," ","t","o","d","a","y","?">>

InitErrorText ==
  <<"E","r","r","o","r",":"," ","C","o","u","l","d"," ","n","o","t"," ","i",
    "n","i","t","i","a","l","i","z","e"," ","t","h","e"," ","A","I"," ","m",
    "o","d","e","l","."," ","P","l","e","a","s","e"," ","c","h","e","c","k",
    " ","y","o","u","r"," ","A","P","I"," ","k","e","y"," ","c","o","n","f",
    "i","g","u","r","a","t","i","o","n",".">>

SendFailedText ==
  <<"I","'","m"," ","s","o","r","r","y",","," ","b","u","t"," ","I"," ","e",
    "n","c","o","u","n","t","e","r","e","d"," ","a","n"," ","e","r","r","o",
    "r","."," ","P","l","e","a","s","e"," ","t","r","y"," ","a","g","a","i",
    "n",".">>

initialMessage ==
  [id |-> <<"i","n","i","t">>, text |-> GreetingText, sender |-> "bot"]

initErrorMessage ==
  [id |-> <<"e","r","r","o","r","-","i","n","i","t">>,
   text |-> InitErrorText, sender |-> "bot"]

\* Inputs: the texts a user submits, the texts the model answers, and the
\* messages of the errors the adapter raises.
SubmitTexts == {<<>>, <<" ">>, <<"h", "i">>}
ResponseTexts == {<<"o", "k">>}
ErrorMessages == {"", "quota exceeded"}

\* No request: the value of lastEvent.req for a step that is about none.
NoReq ==
  [rid |-> 0, text |-> <<>>, session |-> 0, lenBefore |-> 0,
   cleared |-> FALSE]

Event(op, t, r) == [op |-> op, text |-> t, req |-> r]

---------------------------------------------------------------------------
(* The chat app. *)

\* Every variable a chat step can leave alone is named in its UNCHANGED.
otherThanChat == <<imageVars, segVars>>

\* The mount effect.  `outcome` is what the two adapter calls of the try
\* block do: both return ("ok"), the GoogleGenAI constructor throws
\* ("ctorThrows"), or the constructor returns and ai.chats.create throws
\* ("createThrows"); aiRef.current is assigned between the two.
ChatMount(outcome) ==
  /\ app = "chat"
  /\ ~mounted
  /\ mounted' = TRUE
  /\ lastEvent' = Event("mount", <<>>, NoReq)
  /\ aiRef' = (outcome # "ctorThrows")
  /\ IF outcome = "ok"
     THEN /\ chatRef' = nextSession + 1
          /\ nextSession' = nextSession + 1
          /\ UNCHANGED <<messages, initFailed>>
     ELSE /\ messages' = Append(messages, initErrorMessage)
          /\ initFailed' = TRUE
          /\ UNCHANGED <<chatRef, nextSession>>
  /\ UNCHANGED <<app, now, isLoading, inflight, uncaught, nextReq>>
  /\ UNCHANGED otherThanChat

\* The guard of handleSendMessage: the handler goes on when this holds.
SendGuardNoBusy(t) == Trim(t) # <<>> /\ chatRef # 0
SendGuardNoTrim(t) == t # <<>> /\ ~isLoading /\ chatRef # 0
SendGuard(t) == Trim(t) # <<>> /\ ~isLoading /\ chatRef # 0

\* const userMessage = { id: Date.now().toString(), text, sender: 'user' }
userMessage(t) == [id |-> ToString(now), text |-> t, sender |-> "user"]

\* const botMessage = { id: (Date.now() + 1).toString(), text: botResponse,
\*                      sender: 'bot' }
botMessage(t) == [id |-> ToString(now + 1), text |-> t, sender |-> "bot"]

\* The message of the catch block; `e` is the message of the error caught.
errorMessageLeak(e) ==
  [id |-> ToString(now + 1), text |-> <<e>>, sender |-> "bot"]
errorMessage(e) ==
  [id |-> ToString(now + 1), text |-> SendFailedText, sender |-> "bot"]

\* handleSendMessage(text), to its await.
HandleSendMessage(t) ==
  /\ app = "chat"
  /\ IF ~SendGuard(t)
     THEN /\ lastEvent' = Event("submit", t, NoReq)
          /\ UNCHANGED <<messages, isLoading, inflight, nextReq>>
     ELSE /\ nextReq < MaxRequests
          /\ LET r == [rid |-> nextReq + 1, text |-> t, session |-> chatRef,
                       lenBefore |-> Len(messages), cleared |-> FALSE]
             IN /\ messages' = Append(messages, userMessage(t))
                /\ isLoading' = TRUE
                /\ inflight' = inflight \cup {r}
                /\ nextReq' = nextReq + 1
                /\ lastEvent' = Event("submit", t, r)
  /\ UNCHANGED <<app, now, mounted, uncaught, aiRef, chatRef, nextSession,
                 initFailed>>
  /\ UNCHANGED otherThanChat

\* The finally block of handleSendMessage.
SendFinallyKeepsLoading == isLoading
SendFinally == FALSE

\* handleSendMessage after the await, sendMessage having returned `t`.
SendResolved(r, t) ==
  /\ app = "chat"
  /\ r \in inflight
  /\ messages' = Append(messages, botMessage(t))
  /\ isLoading' = SendFinally
  /\ inflight' = inflight \ {r}
  /\ lastEvent' = Event("sendOk", t, r)
  /\ UNCHANGED <<app, now, mounted, uncaught, aiRef, chatRef, nextSession,
                 nextReq, initFailed>>
  /\ UNCHANGED otherThanChat

\* handleSendMessage after the await, sendMessage having thrown an error
\* whose message is `e`.
SendRejected(r, e) ==
  /\ app = "chat"
  /\ r \in inflight
  /\ messages' = Append(messages, errorMessage(e))
  /\ isLoading' = SendFinally
  /\ inflight' = inflight \ {r}
  /\ lastEvent' = Event("sendFailed", <<>>, r)
  /\ UNCHANGED <<app, now, mounted, uncaught, aiRef, chatRef, nextSession,
                 nextReq, initFailed>>
  /\ UNCHANGED otherThanChat

\* What setMessages is given by handleClearChat.
ClearedMessagesKeepAll == messages
ClearedMessages == <<initialMessage>>

\* handleClearChat.  `confirmed` is the answer of window.confirm and
\* `createOk` whether ai.chats.create returns; the call is in no try block.
\* The requests in flight are marked as overtaken by a reset.
HandleClearChat(confirmed, createOk) ==
  /\ app = "chat"
  /\ IF ~confirmed
     THEN /\ lastEvent' = Event("cancelClear", <<>>, NoReq)
          /\ UNCHANGED <<messages, inflight, chatRef, nextSession, uncaught>>
     ELSE /\ lastEvent' = Event("clear", <<>>, NoReq)
          /\ messages' = ClearedMessages
          /\ inflight' = {[r EXCEPT !.cleared = TRUE] : r \in inflight}
          /\ IF ~aiRef
             THEN UNCHANGED <<chatRef, nextSession, uncaught>>
             ELSE IF createOk
                  THEN /\ nextSession < MaxSessions
                       /\ chatRef' = nextSession + 1
                       /\ nextSession' = nextSession + 1
                       /\ UNCHANGED uncaught
                  ELSE /\ uncaught' = TRUE
                       /\ UNCHANGED <<chatRef, nextSession>>
  /\ UNCHANGED <<app, now, mounted, isLoading, aiRef, nextReq, initFailed>>
  /\ UNCHANGED otherThanChat

\* The clock advances by a millisecond.
Tick ==
  /\ now < MaxClock
  /\ now' = now + 1
  /\ lastEvent' = Event("tick", <<>>, NoReq)
  /\ UNCHANGED <<app, mounted, isLoading, inflight, uncaught>>
  /\ UNCHANGED <<chatVars, imageVars, segVars>>

---------------------------------------------------------------------------
(* The image app. *)

otherThanImage == <<chatVars, segVars>>

AiInitFailedText ==
  "Failed to initialize the AI. Please check your API key configuration."
InvalidFileText == "Please upload a valid image file (e.g., JPEG, PNG)."
NoImageText ==
  "No image was generated. The prompt might be unsafe or unsupported. Please try a different prompt."
EditFailedText == "An error occurred while editing the image."

ImagePrefix == <<"i","m","a","g","e","/">>
PngType == ImagePrefix \o <<"p","n","g">>
PlainType == <<"t","e","x","t","/","p","l","a","i","n">>

\* Inputs: the files a user picks, the prompts a user types, and the
\* base64 data the model returns.
Files == {[name |-> <<"p">>, type |-> PngType],
          [name |-> <<"t">>, type |-> PlainType]}
Prompts == {<<>>, <<" ">>, <<"x">>}
ResultData == {<<"Q", "Q", "=", "=">>}

\* URL.createObjectURL: a fresh blob URL; k numbers the URLs created.
createObjectURL(k) == <<"b","l","o","b",":">> \o ToString(k)

\* `data:${mimeType};base64,${data}`
newDataUrl(mimeType, data) ==
  <<"d","a","t","a",":">> \o mimeType
    \o <<";","b","a","s","e","6","4",",">> \o data

\* URL.revokeObjectURL(u) on the set of live object URLs.
RevokeNothing(urls, u) == urls
revokeObjectURL(urls, u) == urls \ {u}

\* The mount effect: the GoogleGenAI constructor returns or throws.
ImageMount(ok) ==
  /\ app = "image"
  /\ ~mounted
  /\ mounted' = TRUE
  /\ lastEvent' = Event("mount", <<>>, NoReq)
  /\ IF ok
     THEN ai' = TRUE /\ UNCHANGED error
     ELSE error' = <<AiInitFailedText>> /\ UNCHANGED ai
  /\ UNCHANGED <<app, now, isLoading, inflight, uncaught>>
  /\ UNCHANGED <<image, prompt, liveUrls, nextUrl, edits>>
  /\ UNCHANGED otherThanImage

\* handleFileChange; `picked` is e.target.files, empty or one file.  The
\* file input and the drop zone are rendered only while image is null.
HandleFileChange(picked) ==
  /\ app = "image"
  /\ image = <<>>
  /\ lastEvent' = Event("upload", <<>>, NoReq)
  /\ IF picked = <<>>
     THEN UNCHANGED <<image, error, liveUrls, nextUrl>>
     ELSE IF ~StartsWith(picked[1].type, ImagePrefix)
          THEN /\ error' = <<InvalidFileText>>
               /\ UNCHANGED <<image, liveUrls, nextUrl>>
          ELSE /\ nextUrl < MaxUploads
               /\ LET u == createObjectURL(nextUrl + 1)
                  IN /\ image' = <<[file |-> picked[1], previewUrl |-> u]>>
                     /\ liveUrls' = liveUrls \cup {u}
               /\ nextUrl' = nextUrl + 1
               /\ error' = <<>>
  /\ UNCHANGED <<app, now, mounted, isLoading, inflight, uncaught>>
  /\ UNCHANGED <<ai, prompt, edits>>
  /\ UNCHANGED otherThanImage

\* The prompt input's onChange; the input is rendered while an image is
\* loaded and is disabled while isLoading.
SetPrompt(p) ==
  /\ app = "image"
  /\ image # <<>>
  /\ ~isLoading
  /\ prompt' = p
  /\ lastEvent' = Event("type", p, NoReq)
  /\ UNCHANGED <<app, now, mounted, isLoading, inflight, uncaught>>
  /\ UNCHANGED <<ai, image, error, liveUrls, nextUrl, edits>>
  /\ UNCHANGED otherThanImage

\* resetApp, the onClick of the "Upload New" button; the button is rendered
\* while an image is loaded and is disabled while isLoading.
ResetApp ==
  /\ app = "image"
  /\ image # <<>>
  /\ ~isLoading
  /\ image' = <<>>
  /\ prompt' = <<>>
  /\ error' = <<>>
  /\ liveUrls' = revokeObjectURL(liveUrls, image[1].previewUrl)
  /\ lastEvent' = Event("reset", <<>>, NoReq)
  /\ UNCHANGED <<app, now, mounted, isLoading, inflight, uncaught>>
  /\ UNCHANGED <<ai, nextUrl, edits>>
  /\ UNCHANGED otherThanImage

\* The guard of handleEdit: the handler goes on when this holds.
EditGuard == ai /\ image # <<>> /\ Trim(prompt) # <<>> /\ ~isLoading

\* handleEdit, to its first await.  The request keeps the image and the
\* prompt the handler closed over.
HandleEdit ==
  /\ app = "image"
  /\ lastEvent' = Event("edit", prompt, NoReq)
  /\ IF ~EditGuard
     THEN UNCHANGED <<isLoading, error, inflight>>
     ELSE /\ isLoading' = TRUE
          /\ error' = <<>>
          /\ inflight' = inflight \cup {[image |-> image[1], prompt |-> prompt]}
  /\ UNCHANGED <<app, now, mounted, uncaught>>
  /\ UNCHANGED <<ai, image, prompt, liveUrls, nextUrl, edits>>
  /\ UNCHANGED otherThanImage

\* setError(err.message || 'An error occurred while editing the image.')
shownError(e) == IF e # "" THEN e ELSE EditFailedText

\* handleEdit after its awaits, generateContent having returned a first
\* part with inlineData {data, mimeType}.
EditResolved(r, mimeType, data) ==
  /\ app = "image"
  /\ r \in inflight
  /\ edits < MaxEdits
  /\ LET url == newDataUrl(mimeType, data)
         newFile == [name |-> <<"e","d","i","t","e","d","-">> \o r.image.file.name,
                     type |-> mimeType]
     IN /\ liveUrls' = revokeObjectURL(liveUrls, r.image.previewUrl)
        /\ image' = <<[file |-> newFile, previewUrl |-> url]>>
  /\ prompt' = <<>>
  /\ edits' = edits + 1
  /\ isLoading' = FALSE
  /\ inflight' = inflight \ {r}
  /\ lastEvent' = Event("editOk", <<>>, NoReq)
  /\ UNCHANGED <<app, now, mounted, uncaught>>
  /\ UNCHANGED <<ai, error, nextUrl>>
  /\ UNCHANGED otherThanImage

\* handleEdit after its awaits, an error with message `e` having been
\* thrown in the try block: by generateContent, by dataUrlToFile, or by the
\* else branch when the response holds no image (e = NoImageText).
EditRejected(r, e) ==
  /\ app = "image"
  /\ r \in inflight
  /\ error' = <<shownError(e)>>
  /\ isLoading' = FALSE
  /\ inflight' = inflight \ {r}
  /\ lastEvent' = Event("editFailed", <<>>, NoReq)
  /\ UNCHANGED <<app, now, mounted, uncaught>>
  /\ UNCHANGED <<ai, image, prompt, liveUrls, nextUrl, edits>>
  /\ UNCHANGED otherThanImage

---------------------------------------------------------------------------
(* ChatMessage: the segmentation of a message text. *)

\* The least index j >= i at which a fence marker starts in s, 0 if none.
RECURSIVE IndexOfFence(_, _)
IndexOfFence(s, i) ==
  IF i + 2 > Len(s)
  THEN 0
  ELSE IF SubSeq(s, i, i + 2) = Fence THEN i ELSE IndexOfFence(s, i + 1)

\* message.text.split(/(```[\s\S]*?```)/g): the text before each match, the
\* match (the capture group), and so on, ending with the text after the
\* last match.  A match starts at the first marker that a later marker
\* closes and, the quantifier being lazy, ends with the nearest one.
RECURSIVE Split(_)
Split(s) ==
  LET i == IndexOfFence(s, 1)
      j == IF i = 0 THEN 0 ELSE IndexOfFence(s, i + 3)
  IN  IF j = 0
      THEN <<s>>
      ELSE <<SubSeq(s, 1, i - 1), SubSeq(s, i, j + 2)>>
             \o Split(Drop(s, j + 2))

\* The length of the run of \w characters s starts with.
RECURSIVE WordRun(_)
WordRun(s) ==
  IF s # <<>> /\ Head(s) \in WordChars THEN 1 + WordRun(Tail(s)) ELSE 0

\* part.replace(/^```(?:\w+\n)?|```$/g, ''): the first alternative removes
\* a marker at the start together with a run of \w closed by a line feed,
\* the second a marker at the end of what the first left.
StripFencesKeepClose(part) ==
  LET opened == StartsWith(part, Fence)
      afterOpen == IF opened THEN Drop(part, 3) ELSE part
      k == WordRun(afterOpen)
  IN  IF opened /\ k > 0 /\ k < Len(afterOpen) /\ afterOpen[k + 1] = "\n"
      THEN Drop(afterOpen, k + 1)
      ELSE afterOpen
StripFences(part) ==
  LET opened == StartsWith(part, Fence)
      afterOpen == IF opened THEN Drop(part, 3) ELSE part
      k == WordRun(afterOpen)
      afterTag ==
        IF opened /\ k > 0 /\ k < Len(afterOpen) /\ afterOpen[k + 1] = "\n"
        THEN Drop(afterOpen, k + 1)
        ELSE afterOpen
  IN  IF EndsWith(afterTag, Fence)
      THEN SubSeq(afterTag, 1, Len(afterTag) - 3)
      ELSE afterTag

\* What parts.map renders a part as: a CodeBlock of the stripped, trimmed
\* code, or a paragraph of the part.
Span(part) ==
  IF StartsWith(part, Fence)
  THEN [kind |-> "code", content |-> Trim(StripFences(part))]
  ELSE [kind |-> "prose", content |-> part]

Segment(t) ==
  LET parts == Split(t) IN [i \in 1..Len(parts) |-> Span(parts[i])]

\* Inputs: the texts made of at most MaxPieces pieces, a piece being a
\* marker, a grave accent, a word character, a line feed or a space.
Pieces == {Fence, <<Backtick>>, <<"a">>, <<"\n">>, <<" ">>}

RECURSIVE TextsOf(_)
TextsOf(n) ==
  IF n = 0
  THEN {<<>>}
  ELSE LET T == TextsOf(n - 1) IN T \cup {t \o p : t \in T, p \in Pieces}

\* ChatMessage renders the message text.
Render ==
  /\ ~rendered
  /\ spans' = Segment(text)
  /\ rendered' = TRUE
  /\ UNCHANGED <<app, now, mounted, isLoading, inflight, uncaught, lastEvent>>
  /\ UNCHANGED <<chatVars, imageVars, text>>

---------------------------------------------------------------------------
(* Specifications. *)

\* The state after construction, before the mount effect.
Startup ==
  /\ now = 0
  /\ mounted = FALSE
  /\ isLoading = FALSE
  /\ inflight = {}
  /\ uncaught = FALSE
  /\ lastEvent = Event("start", <<>>, NoReq)
  /\ messages = <<initialMessage>>
  /\ aiRef = FALSE
  /\ chatRef = 0
  /\ nextSession = 0
  /\ nextReq = 0
  /\ initFailed = FALSE
  /\ ai = FALSE
  /\ image = <<>>
  /\ prompt = <<>>
  /\ error = <<>>
  /\ liveUrls = {}
  /\ nextUrl = 0
  /\ edits = 0

Init ==
  /\ app \in {"chat", "image"}
  /\ Startup
  /\ text = <<>>
  /\ spans = <<>>
  /\ rendered = FALSE

ChatNext ==
  \/ \E outcome \in {"ok", "ctorThrows", "createThrows"} : ChatMount(outcome)
  \/ \E t \in SubmitTexts : HandleSendMessage(t)
  \/ \E r \in inflight : \E t \in ResponseTexts : SendResolved(r, t)
  \/ \E r \in inflight : \E e \in ErrorMessages : SendRejected(r, e)
  \/ \E confirmed \in BOOLEAN : \E createOk \in BOOLEAN :
       HandleClearChat(confirmed, createOk)

ImageNext ==
  \/ \E ok \in BOOLEAN : ImageMount(ok)
  \/ \E picked \in {<<>>} \cup {<<f>> : f \in Files} : HandleFileChange(picked)
  \/ \E p \in Prompts : SetPrompt(p)
  \/ ResetApp
  \/ HandleEdit
  \/ \E r \in inflight : \E d \in ResultData : EditResolved(r, PngType, d)
  \/ \E r \in inflight : \E e \in ErrorMessages \cup {NoImageText} :
       EditRejected(r, e)

Next == ChatNext \/ ImageNext \/ Tick

Spec == Init /\ [][Next]_vars

\* A continuation of handleSendMessage or handleEdit runs: the promise of
\* an adapter call in flight has settled.
Respond ==
  \/ \E r \in inflight : \E t \in ResponseTexts : SendResolved(r, t)
  \/ \E r \in inflight : \E e \in ErrorMessages : SendRejected(r, e)
  \/ \E r \in inflight : \E d \in ResultData : EditResolved(r, PngType, d)
  \/ \E r \in inflight : \E e \in ErrorMessages \cup {NoImageText} :
       EditRejected(r, e)

\* Either front-end with an adapter that settles every call: the promise
\* of a call in flight is eventually resolved or rejected, and the event
\* loop then runs the handler's continuation.
FairSpec == Spec /\ WF_vars(Respond)

\* The segmentation of every input text.
SegInit ==
  /\ app = "chat"
  /\ Startup
  /\ text \in TextsOf(MaxPieces)
  /\ spans = <<>>
  /\ rendered = FALSE

SegNext == Render

SegSpec == SegInit /\ [][SegNext]_vars

---------------------------------------------------------------------------
(* Properties. *)

\* s is an initial segment of t.
IsPrefix(s, t) == Len(s) <= Len(t) /\ SubSeq(t, 1, Len(s)) = s

\* C1: at most one adapter request is in flight in every reachable state,
\* and a submit (handleSendMessage, handleEdit) issued while a request is
\* pending changes nothing: no message is appended, no request dispatched.
C1_SingleFlight ==
  /\ [](Cardinality(inflight) <= 1)
  /\ [][(lastEvent'.op \in {"submit", "edit"} /\ isLoading)
          => UNCHANGED <<messages, inflight, isLoading, nextReq, image,
                         error>>]_vars

\* A well-formed submit arrived while a request was pending and was dropped.
C1_Witness ==
  /\ lastEvent.op = "submit"
  /\ Trim(lastEvent.text) # <<>>
  /\ lastEvent.req = NoReq
  /\ chatRef # 0
  /\ isLoading
  /\ Cardinality(inflight) = 1
  /\ Cardinality({i \in DOMAIN messages : messages[i].sender = "user"}) = 1

C3_AppendOrReset ==
  /\ messages = <<[id |-> <<"i","n","i","t">>, text |-> GreetingText,
                   sender |-> "bot"]>>
  /\ [][IF lastEvent'.op = "clear"
        THEN messages' = <<[id |-> <<"i","n","i","t">>,
                            text |-> GreetingText, sender |-> "bot"]>>
        ELSE IsPrefix(messages, messages')
               /\ Len(messages') <= Len(messages) + 1]_vars

\* A reset was confirmed in a conversation that had grown.
C3_Witness ==
  /\ lastEvent.op = "clear"
  /\ nextReq > 0
  /\ messages = <<initialMessage>>

\* C4: no two messages of the conversation share an id.
C4_IdsUnique ==
  \A i, j \in DOMAIN messages : i # j => messages[i].id # messages[j].id

\* C5: a submit whose guard fails (text empty after trimming, busy, no
\* session; for the image app also no image) leaves the conversation, the
\* image, the busy flag and the error alone and dispatches nothing; and the
\* busy flag is raised only by a submit whose guard holds.
C5_GuardedSubmit ==
  [][/\ (/\ lastEvent'.op = "submit"
         /\ ~(Trim(lastEvent'.text) # <<>> /\ ~isLoading /\ chatRef # 0))
          => UNCHANGED <<messages, image, isLoading, error, inflight,
                         nextReq>>
     /\ (/\ lastEvent'.op = "edit"
         /\ ~(Trim(prompt) # <<>> /\ ~isLoading /\ ai /\ image # <<>>))
          => UNCHANGED <<messages, image, isLoading, error, inflight,
                         nextReq>>
     /\ (~isLoading /\ isLoading')
          => \/ /\ lastEvent'.op = "submit"
                /\ Trim(lastEvent'.text) # <<>>
                /\ chatRef # 0
             \/ /\ lastEvent'.op = "edit"
                /\ Trim(prompt) # <<>>
                /\ ai
                /\ image # <<>>]_vars

\* A whitespace-only text was submitted while idle with a session.
C5_Witness ==
  /\ lastEvent.op = "submit"
  /\ lastEvent.text # <<>>
  /\ Trim(lastEvent.text) = <<>>
  /\ chatRef # 0
  /\ ~isLoading

\* C6: once the mount effect of the chat app has failed, the conversation
\* holds at most one init-error message, no session is ever established
\* and no adapter request is ever dispatched.
C6_InitFailurePermanent ==
  initFailed
    => /\ Cardinality({i \in DOMAIN messages :
                         messages[i].id = initErrorMessage.id}) <= 1
       /\ chatRef = 0
       /\ nextReq = 0

\* C7: no error escapes a handler uncaught, and the text shown after a
\* failed request is one constant whatever the error was.
C7_FixedFailureText ==
  /\ ~uncaught
  /\ lastEvent.op = "sendFailed"
       => messages[Len(messages)].text = SendFailedText
  /\ lastEvent.op = "editFailed" => error = <<EditFailedText>>

\* The display-backing resources that are live: the object URLs not yet
\* revoked, and the data URL the current image holds.
LiveResources ==
  liveUrls \cup
    (IF image # <<>> /\ StartsWith(image[1].previewUrl, <<"d","a","t","a",":">>)
     THEN {image[1].previewUrl}
     ELSE {})

\* C8: never more than one display-backing resource is live; exactly one is
\* after a successful edit, which is the one displayed; none after a reset.
C8_OneLiveResource ==
  /\ Cardinality(LiveResources) <= 1
  /\ lastEvent.op = "editOk"
       => /\ image # <<>>
          /\ LiveResources = {image[1].previewUrl}
  /\ lastEvent.op = "reset" => LiveResources = {}

\* The fifth of five edits in a row has succeeded.
C8_Witness ==
  /\ edits = 5
  /\ nextUrl = 1
  /\ lastEvent.op = "editOk"
  /\ Cardinality(LiveResources) = 1

\* The number of fence markers of s, counted from the left.
RECURSIVE CountMarkers(_)
CountMarkers(s) ==
  IF Len(s) < 3
  THEN 0
  ELSE IF SubSeq(s, 1, 3) = <<Backtick, Backtick, Backtick>>
       THEN 1 + CountMarkers(SubSeq(s, 4, Len(s)))
       ELSE CountMarkers(Tail(s))

\* C9: a text with an odd number of markers is rendered as one prose span
\* holding the text.
C9_OddIsOneProse ==
  (rendered /\ CountMarkers(text) % 2 = 1)
    => spans = <<[kind |-> "prose", content |-> text]>>

\* The spans put together again, each code span between two markers.
RECURSIVE Rewrap(_)
Rewrap(sp) ==
  IF sp = <<>>
  THEN <<>>
  ELSE (IF Head(sp).kind = "code"
        THEN <<Backtick, Backtick, Backtick>> \o Head(sp).content
               \o <<Backtick, Backtick, Backtick>>
        ELSE Head(sp).content) \o Rewrap(Tail(sp))

\* C10 as stated: the spans of a text with an even number of markers,
\* re-wrapped, give the text back; the empty text gives one empty prose span.
C10_RoundTrip ==
  rendered
    => /\ text = <<>> => spans = <<[kind |-> "prose", content |-> <<>>]>>
       /\ CountMarkers(text) % 2 = 0 => Rewrap(spans) = text

\* The position of the first marker of s, 0 if there is none.
RECURSIVE FirstMarker(_, _)
FirstMarker(s, i) ==
  IF i + 2 > Len(s)
  THEN 0
  ELSE IF s[i] = Backtick /\ s[i + 1] = Backtick /\ s[i + 2] = Backtick
       THEN i
       ELSE FirstMarker(s, i + 1)

\* The body between two markers starts with a language tag: word
\* characters closed by a line feed.
HasTag(body) ==
  \E k \in 1..(Len(body) - 1) :
    /\ \A i \in 1..k : body[i] \in WordChars
    /\ body[k + 1] = "\n"

\* Every body between a marker and the next has no language tag and no
\* white space at either end.
RECURSIVE PlainBodies(_)
PlainBodies(s) ==
  LET i == FirstMarker(s, 1)
      j == IF i = 0 THEN 0 ELSE FirstMarker(s, i + 3)
      body == SubSeq(s, i + 3, j - 1)
  IN  IF j = 0
      THEN TRUE
      ELSE /\ ~HasTag(body)
           /\ body # <<>> => (body[1] \notin WhiteSpace
                                /\ body[Len(body)] \notin WhiteSpace)
           /\ PlainBodies(SubSeq(s, j + 3, Len(s)))

\* C10 as amended: the spans of a text with an even number of markers,
\* re-wrapped, give the text back exactly when no fenced body carries a
\* language tag or white space at either end (both are dropped from the
\* code span); the empty text gives one empty prose span.
C10_RoundTripOfPlainBodies ==
  rendered
    => /\ text = <<>> => spans = <<[kind |-> "prose", content |-> <<>>]>>
       /\ CountMarkers(text) % 2 = 0
            => (Rewrap(spans) = text <=> PlainBodies(text))

\* A text with two fenced blocks, one of them not empty, was rendered and
\* is given back.
C10_Witness ==
  /\ rendered
  /\ CountMarkers(text) = 4
  /\ \E i \in DOMAIN spans : spans[i].kind = "code" /\ spans[i].content # <<>>
  /\ Rewrap(spans) = text


C12_ReplyFollowsItsRequest ==
  /\ \A i \in DOMAIN messages :
       (/\ messages[i].sender = "bot"
        /\ messages[i].id # <<"i","n","i","t">>
        /\ messages[i].id # <<"e","r","r","o","r","-","i","n","i","t">>)
         => (i > 1 /\ messages[i - 1].sender = "user")
  /\ lastEvent.op \in {"sendOk", "sendFailed"}
       => /\ Len(messages) >= 3
          /\ messages[Len(messages) - 1].sender = "user"
          /\ messages[Len(messages) - 1].text = lastEvent.req.text

====
